---- MODULE Spec2Model ----
(***************************************************************************)
(* Verification model of the numeric post-processing layer of the forensic *)
(* video dashboard: src/utils/physics.ts (kinematics) and                  *)
(* src/utils/uncertainty.ts (uncertainty propagation).                     *)
(*                                                                         *)
(* Numbers.  A JavaScript number is modelled as an exact rational or one   *)
(* of NaN, +Infinity, -Infinity (record Num below), with the IEEE rules    *)
(* for division by zero, 0 * Infinity and NaN propagation.  Binary         *)
(* rounding error of finite results is not modelled.  Times of the         *)
(* kinematics engine (anchor times, duration, step, the loop clock t) are  *)
(* integers counting hundredths of a second.                               *)
(***************************************************************************)
EXTENDS Integers, Sequences, FiniteSets, TLC

VARIABLES
    sparse,     \* interpolateSeries argument: [isNull, pts], pts a list of <<time, value>>
    duration,   \* interpolateSeries argument, hundredths of a second
    step,       \* interpolateSeries argument, hundredths of a second
    dense,      \* value returned by interpolateSeries
    kpc,        \* "ready" before the call of interpolateSeries, "done" after, "again" after a repeat
    objects,    \* computeUncertaintyMetrics argument: list of TrackedObject
    events,     \* computeUncertaintyMetrics argument: list of TimelineEvent
    analysis,   \* value returned by computeUncertaintyMetrics
    upc,        \* "ready" before the call of computeUncertaintyMetrics, "done" after
    profile1,   \* computeDistanceAndTTC: obj1.speedProfile, [isNull, pts]
    profile2,   \* computeDistanceAndTTC: obj2.speedProfile, [isNull, pts]
    series,     \* value returned by computeDistanceAndTTC
    tpc,        \* "ready" before the call of computeDistanceAndTTC, "done" after
    ppc,        \* where runFullPipeline stands
    callIdx,    \* position in CallOrder of the AI call the pipeline is at
    inflight,   \* positions in CallOrder of the AI requests awaiting a response
    issued,     \* the AI service functions called so far, in call order
    retriesLeft,\* withRetry: retries left for the current call
    hasKey,     \* whether process.env.API_KEY is set
    stageLog,   \* the processingStage values the run has published, in order
    isProcessing, \* the isProcessing flag as last published
    summary,    \* the executiveSummary as last published
    attempts,   \* withRetry: invocations of the operation in the current call
    lastOutcome,\* how the latest attempt ended
    speedSeries,\* computeAcceleration argument: list of [time, value]
    accelSeries,\* value returned by computeAcceleration
    apc,        \* "ready" before the call of computeAcceleration, "done" after
    state,      \* App: the AnalysisState held by useState
    runs,       \* App: where each call of runFullPipeline stands
    latestRun   \* App: the run started by the latest upload, 0 after a Reset

ttcVars == <<profile1, profile2, series, tpc>>
pipeVars == <<ppc, callIdx, inflight, issued, retriesLeft, hasKey,
              stageLog, isProcessing, summary, attempts, lastOutcome>>
accVars == <<speedSeries, accelSeries, apc>>
appVars == <<state, runs, latestRun>>

vars == <<sparse, duration, step, dense, kpc, objects, events, analysis, upc,
          ttcVars, pipeVars, accVars, appVars>>

----------------------------------------------------------------------------
(* Bounds of the explored inputs. *)

MaxPoints == 3      \* longest sparse list
MaxAnchor == 2      \* anchor times are 0, 0.5 s, ..., MaxAnchor * 0.5 s
MaxValue == 10      \* anchor values are -MaxValue and MaxValue
MaxDuration == 3    \* durations are 0, 0.5 s, ..., MaxDuration * 0.5 s
MaxObjects == 2     \* longest object list
MaxEvents == 2      \* longest mixed event list
MaxOcclusions == 14 \* longest event list made of occlusions only
MaxSpeed == 60      \* speed-profile values are 0, 1, 3 and MaxSpeed

----------------------------------------------------------------------------
(* JavaScript numbers. *)

RECURSIVE Gcd(_, _)
Gcd(a, b) == IF b = 0 THEN a ELSE Gcd(b, a % b)

Abs(x) == IF x < 0 THEN -x ELSE x

NaN == [k |-> "nan", n |-> 0, d |-> 1]
PosInf == [k |-> "inf", n |-> 1, d |-> 1]
NegInf == [k |-> "inf", n |-> -1, d |-> 1]

\* The rational n/d (d # 0) in lowest terms with a positive denominator.
Fin(n, d) ==
    LET g == Gcd(Abs(n), Abs(d))
        s == IF d < 0 THEN -1 ELSE 1
    IN  [k |-> "fin", n |-> (s * n) \div g, d |-> (s * d) \div g]

Int2Num(i) == Fin(i, 1)

Sign(a) == IF a.n > 0 THEN 1 ELSE IF a.n < 0 THEN -1 ELSE 0

InfOf(s) == IF s > 0 THEN PosInf ELSE NegInf

JsNeg(a) == [a EXCEPT !.n = -a.n]

JsAdd(a, b) ==
    IF a.k = "nan" \/ b.k = "nan" THEN NaN
    ELSE IF a.k = "fin" /\ b.k = "fin" THEN Fin(a.n * b.d + b.n * a.d, a.d * b.d)
    ELSE IF a.k = "fin" THEN b
    ELSE IF b.k = "fin" THEN a
    ELSE IF a = b THEN a ELSE NaN

JsSub(a, b) == JsAdd(a, JsNeg(b))

JsMul(a, b) ==
    IF a.k = "nan" \/ b.k = "nan" THEN NaN
    ELSE IF a.k = "fin" /\ b.k = "fin" THEN Fin(a.n * b.n, a.d * b.d)
    ELSE IF Sign(a) * Sign(b) = 0 THEN NaN
    ELSE InfOf(Sign(a) * Sign(b))

\* Division; a zero divisor is +0 (the only zero divisors of the program are
\* differences of equal numbers).
JsDiv(a, b) ==
    IF a.k = "nan" \/ b.k = "nan" THEN NaN
    ELSE IF a.k = "fin" /\ b.k = "fin" THEN
        IF b.n = 0 THEN (IF a.n = 0 THEN NaN ELSE InfOf(Sign(a)))
        ELSE Fin(a.n * b.d, a.d * b.n)
    ELSE IF a.k = "inf" /\ b.k = "inf" THEN NaN
    ELSE IF a.k = "inf" THEN InfOf(Sign(a) * (IF Sign(b) < 0 THEN -1 ELSE 1))
    ELSE Int2Num(0)

\* a < b; every comparison with NaN is false.
JsLt(a, b) ==
    IF a.k = "nan" \/ b.k = "nan" THEN FALSE
    ELSE IF a.k = "fin" /\ b.k = "fin" THEN a.n * b.d < b.n * a.d
    ELSE IF a.k = "inf" /\ b.k = "inf" THEN a.n < b.n
    ELSE IF a.k = "inf" THEN a.n < 0
    ELSE b.n > 0

JsGt(a, b) == JsLt(b, a)

\* a <= b and a >= b; false when either is NaN.
JsLe(a, b) == a.k # "nan" /\ b.k # "nan" /\ ~JsLt(b, a)
JsGe(a, b) == JsLe(b, a)

\* Math.max and Math.min: NaN when either argument is NaN.
MathMax(a, b) == IF a.k = "nan" \/ b.k = "nan" THEN NaN ELSE IF JsLt(a, b) THEN b ELSE a
MathMin(a, b) == IF a.k = "nan" \/ b.k = "nan" THEN NaN ELSE IF JsLt(b, a) THEN b ELSE a

\* Variant of ToFixed1: toFixed(0), rounding to whole seconds.
ToFixed0(t) == 100 * ((t + 50) \div 100)

\* Number(t.toFixed(1)) for t >= 0 in hundredths: the nearest tenth, a tie
\* taking the larger one.
ToFixed1(t) == 10 * ((t + 5) \div 10)

----------------------------------------------------------------------------
(* src/utils/physics.ts: interpolateSeries. *)

\* Insert point p into the time-sorted list s after every point whose time is
\* not later than p's: Array.prototype.sort is stable.
RECURSIVE InsertByTime(_, _)
InsertByTime(s, p) ==
    IF s = <<>> THEN <<p>>
    ELSE IF s[Len(s)][1] <= p[1] THEN Append(s, p)
    ELSE Append(InsertByTime(SubSeq(s, 1, Len(s) - 1), p), s[Len(s)])

\* Variant of SortByTime: the points are taken in the order supplied.
SortByTimeOmitted(s) == s

\* [...sparse].sort((a, b) => a[0] - b[0])
RECURSIVE SortByTime(_)
SortByTime(s) ==
    IF s = <<>> THEN <<>>
    ELSE InsertByTime(SortByTime(SubSeq(s, 1, Len(s) - 1)), s[Len(s)])

\* Variant of AdvanceCursor: the scan stops one anchor short of the end.
RECURSIVE AdvanceCursorShort(_, _, _)
AdvanceCursorShort(sorted, currentIdx, t) ==
    IF currentIdx < Len(sorted) - 1 /\ sorted[currentIdx + 1][1] < t
    THEN AdvanceCursorShort(sorted, currentIdx + 1, t)
    ELSE currentIdx

\* The while loop: the cursor (1-based here) after it has advanced for clock t.
RECURSIVE AdvanceCursor(_, _, _)
AdvanceCursor(sorted, currentIdx, t) ==
    IF currentIdx < Len(sorted) /\ sorted[currentIdx + 1][1] < t
    THEN AdvanceCursor(sorted, currentIdx + 1, t)
    ELSE currentIdx

\* The branch p1 && p2: linear interpolation, clamped at 0.
LerpValue(p1, p2, t) ==
    LET range == Int2Num(p2[1] - p1[1])
        ratio == JsDiv(Int2Num(t - p1[1]), range)
        value == JsAdd(Int2Num(p1[2]), JsMul(Int2Num(p2[2] - p1[2]), ratio))
    IN  MathMax(Int2Num(0), value)

\* The branch p1 only: the last value held flat.
FlatValue(p1) == Int2Num(p1[2])

\* The value pushed for clock t with the cursor at currentIdx.
SampleValue(sorted, currentIdx, t) ==
    IF currentIdx <= Len(sorted) /\ currentIdx + 1 <= Len(sorted)
    THEN LerpValue(sorted[currentIdx], sorted[currentIdx + 1], t)
    ELSE IF currentIdx <= Len(sorted)
    THEN FlatValue(sorted[currentIdx])
    ELSE Int2Num(0)

\* Variant of DenseLoop: the loop condition is t < duration.
RECURSIVE DenseLoopExclusive(_, _, _, _, _, _)
DenseLoopExclusive(sorted, currentIdx, t, dur, stp, acc) ==
    IF t < dur
    THEN LET idx == AdvanceCursor(sorted, currentIdx, t)
         IN  DenseLoopExclusive(sorted, idx, t + stp, dur, stp,
                                Append(acc, [time |-> ToFixed1(t),
                                             value |-> SampleValue(sorted, idx, t)]))
    ELSE acc

\* The for loop from clock t on, with the samples pushed so far in acc.
RECURSIVE DenseLoop(_, _, _, _, _, _)
DenseLoop(sorted, currentIdx, t, dur, stp, acc) ==
    IF t <= dur
    THEN LET idx == AdvanceCursor(sorted, currentIdx, t)
         IN  DenseLoop(sorted, idx, t + stp, dur, stp,
                       Append(acc, [time |-> ToFixed1(t),
                                    value |-> SampleValue(sorted, idx, t)]))
    ELSE acc

\* Variant of interpolateSeries: the guard lets a single point through.
interpolateSeriesOnePoint(sp, dur, stp) ==
    IF sp.isNull \/ Len(sp.pts) < 1 THEN <<>>
    ELSE DenseLoop(SortByTime(sp.pts), 1, 0, dur, stp, <<>>)

\* if (!sparse || sparse.length < 2) return []; otherwise sort and run the loop.
interpolateSeries(sp, dur, stp) ==
    IF sp.isNull \/ Len(sp.pts) < 2 THEN <<>>
    ELSE DenseLoop(SortByTime(sp.pts), 1, 0, dur, stp, <<>>)

----------------------------------------------------------------------------
(* src/utils/physics.ts: computeDistanceAndTTC. *)

StartDistance == Int2Num(50)      \* let distance = 50
TickSeconds == Fin(1, 10)         \* closingSpeed * 0.1
ClosingThreshold == Int2Num(1)    \* closingSpeed > 1
TtcSentinel == Int2Num(10)        \* ttc when the objects do not close in
RiskTtc == Fin(25, 10)            \* ttc < 2.5
RiskDistance == Int2Num(20)       \* distance < 20
DefaultStep == 10                 \* step = 0.1 s, in hundredths

\* Math.abs
MathAbs(a) == IF a.k = "nan" THEN NaN ELSE [a EXCEPT !.n = Abs(a.n)]

\* obj.speedProfile || []
ProfileOrEmpty(sp) == IF sp.isNull THEN [isNull |-> FALSE, pts |-> <<>>] ELSE sp

\* const closingSpeed = Math.abs(v1 - v2)
ClosingSpeed(v1, v2) == MathAbs(JsSub(v1, v2))

\* distance -= closingSpeed * 0.1; if (distance < 0) distance = 0
NextDistance(distance, closingSpeed) ==
    LET d == JsSub(distance, JsMul(closingSpeed, TickSeconds))
    IN  IF JsLt(d, Int2Num(0)) THEN Int2Num(0) ELSE d

\* Variant of Ttc: the quotient is capped at the sentinel.
TtcCapped(distance, closingSpeed) ==
    IF JsGt(closingSpeed, Int2Num(1))
    THEN MathMin(Int2Num(10), JsDiv(distance, closingSpeed))
    ELSE Int2Num(10)

\* Variant of Ttc: the sentinel applies only below the threshold.
TtcInclusive(distance, closingSpeed) ==
    IF JsGe(closingSpeed, Int2Num(1)) THEN JsDiv(distance, closingSpeed) ELSE Int2Num(10)

\* const ttc = closingSpeed > 1 ? distance / closingSpeed : 10
Ttc(distance, closingSpeed) ==
    IF JsGt(closingSpeed, ClosingThreshold) THEN JsDiv(distance, closingSpeed) ELSE TtcSentinel

\* risk: ttc < 2.5 && distance < 20
Risk(ttc, distance) == JsLt(ttc, RiskTtc) /\ JsLt(distance, RiskDistance)

MinLen(a, b) == IF Len(a) < Len(b) THEN Len(a) ELSE Len(b)

\* The for loop from index i on (1-based), with the running distance and the
\* samples pushed so far in acc.
RECURSIVE TtcLoop(_, _, _, _, _)
TtcLoop(dense1, dense2, i, distance, acc) ==
    IF i <= MinLen(dense1, dense2)
    THEN LET closingSpeed == ClosingSpeed(dense1[i].value, dense2[i].value)
             d == NextDistance(distance, closingSpeed)
             ttc == Ttc(d, closingSpeed)
         IN  TtcLoop(dense1, dense2, i + 1, d,
                     Append(acc, [time |-> dense1[i].time, distance |-> d,
                                  ttc |-> ttc, risk |-> Risk(ttc, d)]))
    ELSE acc

\* Both speed profiles are interpolated with the default step, then walked.
computeDistanceAndTTC(sp1, sp2, dur) ==
    TtcLoop(interpolateSeries(ProfileOrEmpty(sp1), dur, DefaultStep),
            interpolateSeries(ProfileOrEmpty(sp2), dur, DefaultStep),
            1, StartDistance, <<>>)

----------------------------------------------------------------------------
(* src/utils/physics.ts: computeAcceleration.  Times are hundredths of a    *)
(* second, so a time difference dt stands for dt / 100 seconds.             *)

\* Variant of AccelAt: the quotient is taken whenever dt >= 0.
AccelAtInclusive(s, i) ==
    IF i = 1 THEN [time |-> s[1].time, value |-> Int2Num(0)]
    ELSE [time |-> s[i].time,
          value |-> IF s[i].time - s[i - 1].time >= 0
                    THEN JsDiv(JsSub(s[i].value, s[i - 1].value),
                               Fin(s[i].time - s[i - 1].time, 100))
                    ELSE Int2Num(0)]

\* The map callback for index i (1-based).
AccelAt(s, i) ==
    IF i = 1 THEN [time |-> s[1].time, value |-> Int2Num(0)]
    ELSE LET prev == s[i - 1]
             dt == s[i].time - prev.time
             dv == JsSub(s[i].value, prev.value)
             accel == IF dt > 0 THEN JsDiv(dv, Fin(dt, 100)) ELSE Int2Num(0)
         IN  [time |-> s[i].time, value |-> accel]

computeAcceleration(s) == [i \in 1..Len(s) |-> AccelAt(s, i)]

----------------------------------------------------------------------------
(* src/utils/uncertainty.ts: computeUncertaintyMetrics.  avgConfidence is   *)
(* carried in hundredths (90 is 0.9); every derived quantity is a Num.      *)

One == Int2Num(1)
VelFactor == Fin(12, 10)          \* baseUncertainty * 1.2
SpeedPenalty == Fin(2, 10)        \* + 0.2 when maxSpeed > 80
SpeedThreshold == 80
AccelFactor == Fin(15, 10)        \* velUncertainty * 1.5
ErraticPenalty == Fin(3, 10)      \* + 0.3 when motionState === 'erratic'
DetectionWeight == Fin(15, 100)   \* (1 - avgDetectionConf) * 0.15
TrackingBase == Fin(5, 100)       \* 0.05
TrackingPerOcclusion == Fin(2, 100) \* 0.02 per occlusion event
MotionFactor == Fin(15, 10)       \* trackingLoss * 1.5
DynamicsLoss == Fin(5, 100)       \* 0.05
LowConfThreshold == Fin(6, 10)    \* avgConfidence < 0.6

Conf(obj) == Fin(obj.avgConfidence, 100)

\* const baseUncertainty = 1 - obj.avgConfidence
BaseUncertainty(obj) == JsSub(One, Conf(obj))

\* Variant of VelUncertainty: the speed penalty applies from 80 on.
VelUncertaintyFrom80(obj) ==
    MathMin(Int2Num(1), JsAdd(JsMul(JsSub(Int2Num(1), Fin(obj.avgConfidence, 100)), Fin(12, 10)),
                              IF obj.maxSpeed >= 80 THEN Fin(2, 10) ELSE Int2Num(0)))

\* Math.min(1, baseUncertainty * 1.2 + (obj.maxSpeed > 80 ? 0.2 : 0))
VelUncertainty(obj) ==
    MathMin(One, JsAdd(JsMul(BaseUncertainty(obj), VelFactor),
                       IF obj.maxSpeed > SpeedThreshold THEN SpeedPenalty ELSE Int2Num(0)))

\* Math.min(1, velUncertainty * 1.5)
AccelUncertainty(obj) == MathMin(One, JsMul(VelUncertainty(obj), AccelFactor))

\* Math.min(1, baseUncertainty + (obj.motionState === 'erratic' ? 0.3 : 0))
PersistenceRisk(obj) ==
    MathMin(One, JsAdd(BaseUncertainty(obj),
                       IF obj.motionState = "erratic" THEN ErraticPenalty ELSE Int2Num(0)))

\* The record returned by the objects.map callback.
NodeOf(obj) ==
    [objectId |-> obj.id,
     label |-> obj.label,
     posUncertainty |-> BaseUncertainty(obj),
     velUncertainty |-> VelUncertainty(obj),
     accelUncertainty |-> AccelUncertainty(obj),
     persistenceRisk |-> PersistenceRisk(obj)]

\* Variant of Nodes: the nodes come out in reverse order.
NodesReversed(objs) == [i \in 1..Len(objs) |-> NodeOf(objs[Len(objs) + 1 - i])]

\* objects.map(...): one node per object, in order.
Nodes(objs) == [i \in 1..Len(objs) |-> NodeOf(objs[i])]

\* objects.reduce((acc, o) => acc + o.avgConfidence, 0)
RECURSIVE SumConf(_)
SumConf(objs) ==
    IF objs = <<>> THEN Int2Num(0)
    ELSE JsAdd(SumConf(SubSeq(objs, 1, Len(objs) - 1)), Conf(objs[Len(objs)]))

\* Variant of AvgDetectionConf: the mean is taken without the length guard.
AvgDetectionConfUnguarded(objs) == JsDiv(SumConf(objs), Int2Num(Len(objs)))

\* objects.length > 0 ? sum / objects.length : 0
AvgDetectionConf(objs) ==
    IF Len(objs) > 0 THEN JsDiv(SumConf(objs), Int2Num(Len(objs))) ELSE Int2Num(0)

IsOcclusion(e) == e.type = "occlusion"

\* Variant of IsLowConf: the threshold 0.6 itself counts as low.
IsLowConfInclusive(o) == JsLe(Fin(o.avgConfidence, 100), Fin(6, 10))

IsLowConf(o) == JsLt(Conf(o), LowConfThreshold)

\* events.filter(e => e.type === 'occlusion')
OcclusionEvents(evs) == SelectSeq(evs, IsOcclusion)
\* objects.filter(o => o.avgConfidence < 0.6)
LowConfObjects(objs) == SelectSeq(objs, IsLowConf)

DetectionInput == One
DetectionLoss(objs) == JsMul(JsSub(One, AvgDetectionConf(objs)), DetectionWeight)
DetectionOutput(objs) == JsSub(DetectionInput, DetectionLoss(objs))

\* Variant of TrackingLoss: every event counts, whatever its type.
TrackingLossAllEvents(evs) ==
    JsAdd(Fin(5, 100), JsMul(Int2Num(Len(evs)), Fin(2, 100)))

\* const trackingLoss = 0.05 + (events.filter(e => e.type === 'occlusion').length * 0.02)
TrackingLoss(evs) ==
    JsAdd(TrackingBase, JsMul(Int2Num(Len(OcclusionEvents(evs))), TrackingPerOcclusion))
TrackingOutput(objs, evs) == JsSub(DetectionOutput(objs), TrackingLoss(evs))

MotionLoss(evs) == JsMul(TrackingLoss(evs), MotionFactor)
MotionOutput(objs, evs) == JsSub(TrackingOutput(objs, evs), MotionLoss(evs))

DynamicsOutput(objs, evs) == JsSub(MotionOutput(objs, evs), DynamicsLoss)

Row(stage, inputConf, loss, outputConf) ==
    [stage |-> stage, inputConf |-> inputConf, loss |-> loss, outputConf |-> outputConf]

\* Variant of Budget: the third row starts from the detection output.
BudgetSkippingTracking(objs, evs) ==
    << Row("Raw Detection", DetectionInput, DetectionLoss(objs), DetectionOutput(objs)),
       Row("Multi-Object Tracking", DetectionOutput(objs), TrackingLoss(evs),
           TrackingOutput(objs, evs)),
       Row("Motion Estimation", DetectionOutput(objs), MotionLoss(evs),
           MotionOutput(objs, evs)),
       Row("Dynamics Modeling", MotionOutput(objs, evs), DynamicsLoss,
           DynamicsOutput(objs, evs)) >>

\* The four rows of the budget array.
Budget(objs, evs) ==
    << Row("Raw Detection", DetectionInput, DetectionLoss(objs), DetectionOutput(objs)),
       Row("Multi-Object Tracking", DetectionOutput(objs), TrackingLoss(evs),
           TrackingOutput(objs, evs)),
       Row("Motion Estimation", TrackingOutput(objs, evs), MotionLoss(evs),
           MotionOutput(objs, evs)),
       Row("Dynamics Modeling", MotionOutput(objs, evs), DynamicsLoss,
           DynamicsOutput(objs, evs)) >>

\* A finding; the description is kept as the data it is formatted from: the
\* ids of the low-confidence objects, the occlusion count, or nothing.
Finding(type, severity, data) == [type |-> type, severity |-> severity, data |-> data]

Ids(objs) == [i \in 1..Len(objs) |-> objs[i].id]

AnalyticalFindings(objs) ==
    IF Len(LowConfObjects(objs)) > 0
    THEN <<Finding("ANALYTICAL", "HIGH", Ids(LowConfObjects(objs)))>>
    ELSE <<>>

TemporalFindings(evs) ==
    IF Len(OcclusionEvents(evs)) > 0
    THEN <<Finding("TEMPORAL", "MEDIUM", <<Len(OcclusionEvents(evs))>>)>>
    ELSE <<>>

\* Variant of SpatialFindings: the unconditional finding is left out.
NoSpatialFindings == <<>>

SpatialFindings == <<Finding("SPATIAL", "LOW", <<>>)>>

BlindSpots(objs, evs) == AnalyticalFindings(objs) \o TemporalFindings(evs) \o SpatialFindings

computeUncertaintyMetrics(objs, evs) ==
    [nodes |-> Nodes(objs), budget |-> Budget(objs, evs), blindSpots |-> BlindSpots(objs, evs)]

----------------------------------------------------------------------------
(* Inputs. *)

\* Lists over S of length 0..n.
SeqsUpTo(S, n) == UNION {[1..m -> S] : m \in 0..n}

AnchorTimes == {50 * i : i \in 0..MaxAnchor}
AnchorValues == {-MaxValue, MaxValue}
SparsePoints == {<<tm, v>> : tm \in AnchorTimes, v \in AnchorValues}
SparseInputs ==
    {[isNull |-> TRUE, pts |-> <<>>]}
        \cup {[isNull |-> FALSE, pts |-> p] : p \in SeqsUpTo(SparsePoints, MaxPoints)}
Durations == {50 * i : i \in 0..MaxDuration}
Steps == {10, 25, 50}

NoAnalysis == [nodes |-> <<>>, budget |-> <<>>, blindSpots |-> <<>>]

\* Attributes the perception step reports for an object; avgConfidence is not
\* validated, 150 stands for a value outside [0, 1].  maxSpeed and motionState
\* take the three profiles below (at, above the speed threshold; erratic).
Profiles == {<<80, "moving">>, <<81, "moving">>, <<80, "erratic">>}
ObjectAttrs ==
    {[avgConfidence |-> c, maxSpeed |-> p[1], motionState |-> p[2]] :
        c \in {59, 60, 90, 150}, p \in Profiles}
Labels == <<"Car", "Pedestrian", "Cyclist">>
MkObject(i, a) ==
    [id |-> i, label |-> Labels[1 + (i % 3)], avgConfidence |-> a.avgConfidence,
     maxSpeed |-> a.maxSpeed, motionState |-> a.motionState]
ObjectLists ==
    {[i \in 1..Len(as) |-> MkObject(i, as[i])] : as \in SeqsUpTo(ObjectAttrs, MaxObjects)}

EventTypes == {"occlusion", "braking"}
MkEvent(ty) == [type |-> ty]
EventLists ==
    {[i \in 1..Len(ts) |-> MkEvent(ts[i])] : ts \in SeqsUpTo(EventTypes, MaxEvents)}
        \cup {[i \in 1..n |-> MkEvent("occlusion")] : n \in 0..MaxOcclusions}

----------------------------------------------------------------------------
(* The kinematics engine: one call of interpolateSeries on arbitrary inputs. *)

NullProfile == [isNull |-> TRUE, pts |-> <<>>]

\* The variables of an engine that a specification does not exercise.
KinematicsIdle ==
    /\ sparse = NullProfile
    /\ duration = 0
    /\ step = DefaultStep
    /\ dense = <<>>
    /\ kpc = "idle"

TtcIdle ==
    /\ profile1 = NullProfile
    /\ profile2 = NullProfile
    /\ series = <<>>
    /\ tpc = "idle"

AccIdle ==
    /\ speedSeries = <<>>
    /\ accelSeries = <<>>
    /\ apc = "idle"

\* INITIAL_STATE of App.tsx: the fields the pipeline publishes. A result
\* field holds the number of the run whose file it was computed from, 0 when
\* it is empty.
INITIAL_STATE ==
    [view |-> "LANDING", isProcessing |-> FALSE, processingStage |-> "",
     executiveSummary |-> "", integrity |-> 0, objects |-> 0, events |-> 0,
     graph |-> 0, counterfactuals |-> 0, stressTests |-> 0, summaries |-> 0]

MaxRuns == 2        \* uploads in one session
RunIds == 1..MaxRuns

AppIdle ==
    /\ state = INITIAL_STATE
    /\ runs = [r \in RunIds |-> "unused"]
    /\ latestRun = 0

PipelineIdle ==
    /\ ppc = "idle"
    /\ callIdx = 0
    /\ inflight = {}
    /\ issued = <<>>
    /\ retriesLeft = 0
    /\ hasKey = FALSE
    /\ stageLog = <<>>
    /\ isProcessing = FALSE
    /\ summary = ""
    /\ attempts = 0
    /\ lastOutcome = "none"

InitKinematics ==
    /\ sparse \in SparseInputs
    /\ duration \in Durations
    /\ step \in Steps
    /\ dense = <<>>
    /\ kpc = "ready"
    /\ objects = <<>>
    /\ events = <<>>
    /\ analysis = NoAnalysis
    /\ upc = "idle"
    /\ TtcIdle
    /\ PipelineIdle
    /\ AccIdle
    /\ AppIdle

\* Variant of CallerListAfterSort: sparse.sort(...) without the spread copy
\* reorders the caller's own list.
CallerListSortedInPlace(sp) ==
    IF sp.isNull \/ Len(sp.pts) < 2 THEN sp ELSE [sp EXCEPT !.pts = SortByTime(sp.pts)]

\* The caller's list after the call: [...sparse] is a fresh array, and the
\* in-place sort reorders that copy; sparse itself is only read.
CallerListAfterSort(sp) == sp

CallInterpolate ==
    /\ kpc = "ready"
    /\ dense' = interpolateSeries(sparse, duration, step)
    /\ sparse' = CallerListAfterSort(sparse)
    /\ kpc' = "done"
    /\ UNCHANGED <<duration, step, objects, events, analysis, upc, ttcVars, pipeVars, accVars, appVars>>

\* The view calls interpolateSeries again with the same arguments on its next
\* evaluation; the function has only local variables, so nothing but the
\* arguments reaches the second call.
CallInterpolateAgain ==
    /\ kpc = "done"
    /\ dense' = interpolateSeries(sparse, duration, step)
    /\ sparse' = CallerListAfterSort(sparse)
    /\ kpc' = "again"
    /\ UNCHANGED <<duration, step, objects, events, analysis, upc, ttcVars, pipeVars, accVars, appVars>>

NextKinematics == CallInterpolate \/ CallInterpolateAgain

SpecKinematics == InitKinematics /\ [][NextKinematics]_vars

----------------------------------------------------------------------------
(* The uncertainty engine: one call of computeUncertaintyMetrics. *)

InitUncertainty ==
    /\ objects \in ObjectLists
    /\ events \in EventLists
    /\ analysis = NoAnalysis
    /\ upc = "ready"
    /\ sparse = [isNull |-> TRUE, pts |-> <<>>]
    /\ duration = 0
    /\ step = 10
    /\ dense = <<>>
    /\ kpc = "idle"
    /\ TtcIdle
    /\ PipelineIdle
    /\ AccIdle
    /\ AppIdle

CallComputeUncertainty ==
    /\ upc = "ready"
    /\ analysis' = computeUncertaintyMetrics(objects, events)
    /\ upc' = "done"
    /\ UNCHANGED <<objects, events, sparse, duration, step, dense, kpc, ttcVars, pipeVars, accVars, appVars>>

NextUncertainty == CallComputeUncertainty

SpecUncertainty == InitUncertainty /\ [][NextUncertainty]_vars

----------------------------------------------------------------------------
(* The proximity series: one call of computeDistanceAndTTC on two objects'  *)
(* speed profiles.                                                          *)

ProfileTimes == {0, 50 * MaxAnchor}
\* 0 and 1 close in at exactly the threshold, 3 slowly, MaxSpeed fast.
ProfileSpeeds == {0, 1, 3, MaxSpeed}
ProfilePoints == {<<tm, v>> : tm \in ProfileTimes, v \in ProfileSpeeds}
\* speedProfile absent, empty, of one point, or of two points in any order.
SpeedProfiles ==
    {NullProfile}
        \cup {[isNull |-> FALSE, pts |-> p] :
                p \in {<<>>} \cup {<<a>> : a \in ProfilePoints}
                             \cup {<<a, b>> : a \in ProfilePoints, b \in ProfilePoints}}

InitTTC ==
    /\ profile1 \in SpeedProfiles
    /\ profile2 \in SpeedProfiles
    /\ duration \in Durations
    /\ series = <<>>
    /\ tpc = "ready"
    /\ sparse = NullProfile
    /\ step = DefaultStep
    /\ dense = <<>>
    /\ kpc = "idle"
    /\ objects = <<>>
    /\ events = <<>>
    /\ analysis = NoAnalysis
    /\ upc = "idle"
    /\ PipelineIdle
    /\ AccIdle
    /\ AppIdle

CallComputeDistanceAndTTC ==
    /\ tpc = "ready"
    /\ series' = computeDistanceAndTTC(profile1, profile2, duration)
    /\ tpc' = "done"
    /\ UNCHANGED <<profile1, profile2, duration, sparse, step, dense, kpc,
                   objects, events, analysis, upc, pipeVars, accVars, appVars>>

NextTTC == CallComputeDistanceAndTTC

SpecTTC == InitTTC /\ [][NextTTC]_vars

----------------------------------------------------------------------------
(* The derivative: one call of computeAcceleration on an arbitrary series,  *)
(* whose times need not increase and whose values may be NaN.               *)

SeriesValues == {Int2Num(-MaxValue), Int2Num(MaxValue), NaN}
SeriesPoints == {[time |-> tm, value |-> v] : tm \in AnchorTimes, v \in SeriesValues}
SpeedSeriesInputs == SeqsUpTo(SeriesPoints, MaxPoints)

InitAcceleration ==
    /\ speedSeries \in SpeedSeriesInputs
    /\ accelSeries = <<>>
    /\ apc = "ready"
    /\ KinematicsIdle
    /\ objects = <<>>
    /\ events = <<>>
    /\ analysis = NoAnalysis
    /\ upc = "idle"
    /\ TtcIdle
    /\ PipelineIdle
    /\ AppIdle

CallComputeAcceleration ==
    /\ apc = "ready"
    /\ accelSeries' = computeAcceleration(speedSeries)
    /\ apc' = "done"
    /\ UNCHANGED <<speedSeries, sparse, duration, step, dense, kpc,
                   objects, events, analysis, upc, ttcVars, pipeVars, appVars>>

NextAcceleration == CallComputeAcceleration

SpecAcceleration == InitAcceleration /\ [][NextAcceleration]_vars

----------------------------------------------------------------------------
(* Either engine, called on arbitrary inputs: the frame of the two calls. *)

InitPure == InitKinematics \/ InitUncertainty

NextPure == NextKinematics \/ NextUncertainty

SpecPure == InitPure /\ [][NextPure]_vars

----------------------------------------------------------------------------
(* src/components/Navigation.tsx: one run of runFullPipeline.  The run is   *)
(* one async function; a step of the model goes from one await to the next. *)

\* The AI service functions in the order runFullPipeline calls them.
CallOrder ==
    <<"analyzeVideoStructure", "generateCausalGraph", "generateCounterfactuals",
      "generateStressTests", "generateInterventions", "generateExecutiveSummary",
      "generateSignalsSummary", "generatePerceptionSummary",
      "generateMeasurementsSummary", "generateUncertaintySummary",
      "generateCausalExecutiveReport">>

\* The functions that return a fixed text without a request when objects is empty.
ObjectSummaries ==
    {"generateSignalsSummary", "generatePerceptionSummary", "generateMeasurementsSummary"}

Retries == 8        \* withRetry(operation, retries = 8, ...)

\* The functions that throw "API Key Missing" when no client can be made;
\* the others return a default.
ThrowsWithoutKey ==
    {"analyzeVideoStructure", "generateCausalGraph", "generateInterventions"}

\* The functions that JSON.parse the response inside their try block.
JsonCalls ==
    {"analyzeVideoStructure", "generateCausalGraph", "generateCounterfactuals",
     "generateStressTests", "generateInterventions"}

\* The processingStage values in the order the run publishes them.
ProcessingStages ==
    <<"FILE_INTAKE", "INTEGRITY_CHECK", "PERCEPTION_ANALYSIS", "CAUSAL_MODELING",
      "COUNTERFACTUAL_SIM", "ROBUSTNESS_TEST", "SYNTHESIS", "COMPLETE">>

\* A JSON null in the list of objects: the response is not validated.
NullObject ==
    [id |-> 0, label |-> "null", avgConfidence |-> 0, maxSpeed |-> 0, motionState |-> "null"]

\* What the perception request can come back with.
PerceptionObjects ==
    {<<>>, <<MkObject(1, [avgConfidence |-> 90, maxSpeed |-> 80, motionState |-> "moving"])>>,
     <<NullObject>>}
PerceptionEvents == {<<>>, <<MkEvent("occlusion")>>}

\* computeUncertaintyMetrics reads obj.id of every element: a null element
\* raises a TypeError.
UncertaintyThrows(objs) == \E i \in 1..Len(objs) : objs[i] = NullObject

\* Variant of Awaited: the summaries of the synthesis stage are started
\* without await.
AwaitedUntilSummaries(k) == k < 7

\* Every call of an AI service function in runFullPipeline is written
\* "await Gemini.f(...)".
Awaited(k) == TRUE

\* Where the run stands once call k has returned: the throttling sleep
\* before the next call, or the final updateState.
AfterCall(k) == IF k = Len(CallOrder) THEN "complete" ELSE "sleep"

\* Variant of StageBeforeCall: COUNTERFACTUAL_SIM is never published.
StageBeforeCallSkipping(k) ==
    IF k = 4 THEN <<"ROBUSTNESS_TEST">>
    ELSE IF k = 5 THEN <<"SYNTHESIS">>
    ELSE <<>>

\* The stage published after the sleep that precedes call k.
StageBeforeCall(k) ==
    IF CallOrder[k] = "generateCounterfactuals" THEN <<"COUNTERFACTUAL_SIM">>
    ELSE IF CallOrder[k] = "generateStressTests" THEN <<"ROBUSTNESS_TEST">>
    ELSE IF CallOrder[k] = "generateInterventions" THEN <<"SYNTHESIS">>
    ELSE <<>>

\* Variant of RetryAllowed: one more retry once the budget is used up.
RetryAllowedAtZero(left) == left >= 0

\* withRetry: isRateLimit && retries > 0
RetryAllowed(left) == left > 0

\* Variant of EmptyPerception: only the list of objects is tested.
EmptyPerceptionObjectsOnly(objs, evs) == Len(objs) = 0

\* structure.events.length === 0 && structure.objects.length === 0
EmptyPerception(objs, evs) == Len(evs) = 0 /\ Len(objs) = 0

\* Variant of ProcessingAfterCatch: the catch block leaves the flag set.
ProcessingStuckAfterCatch == TRUE

\* isProcessing as the catch block publishes it.
ProcessingAfterCatch == FALSE

\* The variables runFullPipeline does not touch.
engineVars == <<sparse, duration, step, dense, kpc, upc, ttcVars, accVars, appVars>>

\* runFullPipeline has been called: isProcessing and FILE_INTAKE are
\* published and the file read is awaited.
InitPipeline ==
    /\ ppc = "intake"
    /\ callIdx = 0
    /\ inflight = {}
    /\ issued = <<>>
    /\ retriesLeft = 0
    /\ hasKey \in BOOLEAN
    /\ stageLog = <<"FILE_INTAKE">>
    /\ isProcessing = TRUE
    /\ summary = ""
    /\ attempts = 0
    /\ lastOutcome = "none"
    /\ objects = <<>>
    /\ events = <<>>
    /\ analysis = NoAnalysis
    /\ upc = "idle"
    /\ KinematicsIdle
    /\ TtcIdle
    /\ AccIdle
    /\ AppIdle

\* The catch block: ANALYSIS FAILED.
Caught ==
    /\ ppc' = "failed"
    /\ isProcessing' = ProcessingAfterCatch
    /\ summary' = "ANALYSIS FAILED"
    /\ UNCHANGED stageLog

\* The early return after an empty perception result.
Insufficient ==
    /\ ppc' = "insufficient"
    /\ isProcessing' = FALSE
    /\ summary' = "INSUFFICIENT EVIDENCE"
    /\ UNCHANGED stageLog

\* Call k (not the perception) has returned a result or its default; after
\* the last call the final updateState publishes COMPLETE.
Returns(k) ==
    /\ ppc' = AfterCall(k)
    /\ IF k = Len(CallOrder)
       THEN /\ stageLog' = Append(stageLog, "COMPLETE")
            /\ isProcessing' = FALSE
            /\ summary' = "SUMMARY"
       ELSE UNCHANGED <<stageLog, isProcessing, summary>>

\* The file is read and hashed; INTEGRITY_CHECK and PERCEPTION_ANALYSIS are
\* published on the way to the perception call.
Intake ==
    /\ ppc = "intake"
    /\ ppc' = "call"
    /\ callIdx' = 1
    /\ stageLog' = stageLog \o <<"INTEGRITY_CHECK", "PERCEPTION_ANALYSIS">>
    /\ UNCHANGED <<inflight, issued, retriesLeft, hasKey, isProcessing, summary,
                   attempts, lastOutcome, objects, events, analysis, engineVars>>

\* The FileReader or the hash rejects: the catch block ends the run.
IntakeFails ==
    /\ ppc = "intake"
    /\ Caught
    /\ UNCHANGED <<callIdx, inflight, issued, retriesLeft, hasKey,
                   attempts, lastOutcome, objects, events, analysis, engineVars>>

\* The function throws "API Key Missing" before any request.
CallThrows ==
    /\ ppc = "call"
    /\ ~hasKey
    /\ CallOrder[callIdx] \in ThrowsWithoutKey
    /\ issued' = Append(issued, CallOrder[callIdx])
    /\ Caught
    /\ UNCHANGED <<callIdx, inflight, retriesLeft, hasKey,
                   attempts, lastOutcome, objects, events, analysis, engineVars>>

\* The function returns its default without a request: no client, or a
\* summary function called with no objects.
CallReturnsEarly ==
    /\ ppc = "call"
    /\ \/ ~hasKey /\ CallOrder[callIdx] \notin ThrowsWithoutKey
       \/ hasKey /\ CallOrder[callIdx] \in ObjectSummaries /\ objects = <<>>
    /\ issued' = Append(issued, CallOrder[callIdx])
    /\ Returns(callIdx)
    /\ UNCHANGED <<callIdx, inflight, retriesLeft, hasKey,
                   attempts, lastOutcome, objects, events, analysis, engineVars>>

\* The function is called and sends its request through withRetry.
IssueRequest ==
    /\ ppc = "call"
    /\ hasKey
    /\ ~(CallOrder[callIdx] \in ObjectSummaries /\ objects = <<>>)
    /\ issued' = Append(issued, CallOrder[callIdx])
    /\ inflight' = inflight \cup {callIdx}
    /\ retriesLeft' = Retries
    /\ attempts' = 1
    /\ lastOutcome' = "none"
    /\ ppc' = IF Awaited(callIdx) THEN "await" ELSE AfterCall(callIdx)
    /\ UNCHANGED <<callIdx, hasKey, stageLog, isProcessing, summary,
                   objects, events, analysis, engineVars>>

\* The perception response arrives and parses; with no object and no event
\* the run returns with INSUFFICIENT EVIDENCE, otherwise CAUSAL_MODELING is
\* published and the first throttling sleep starts.
PerceptionReturns ==
    /\ ppc = "await"
    /\ callIdx = 1
    /\ inflight = {callIdx}
    /\ inflight' = {}
    /\ lastOutcome' = "ok"
    /\ \E objs \in PerceptionObjects, evs \in PerceptionEvents :
        /\ objects' = objs
        /\ events' = evs
        /\ IF EmptyPerception(objs, evs)
           THEN Insufficient
           ELSE /\ ppc' = AfterCall(callIdx)
                /\ stageLog' = Append(stageLog, "CAUSAL_MODELING")
                /\ UNCHANGED <<isProcessing, summary>>
    /\ UNCHANGED <<callIdx, issued, retriesLeft, hasKey, attempts, analysis, engineVars>>

\* The response of a later call arrives.
RequestSucceeds ==
    /\ ppc = "await"
    /\ callIdx > 1
    /\ inflight = {callIdx}
    /\ inflight' = {}
    /\ lastOutcome' = "ok"
    /\ Returns(callIdx)
    /\ UNCHANGED <<callIdx, issued, retriesLeft, hasKey, attempts,
                   objects, events, analysis, engineVars>>

\* withRetry: a rate-limit error with retries left; the backoff sleep starts.
RequestRateLimited ==
    /\ ppc = "await"
    /\ inflight = {callIdx}
    /\ RetryAllowed(retriesLeft)
    /\ inflight' = {}
    /\ retriesLeft' = retriesLeft - 1
    /\ lastOutcome' = "rateLimit"
    /\ ppc' = "backoff"
    /\ UNCHANGED <<callIdx, issued, hasKey, stageLog, isProcessing, summary, attempts,
                   objects, events, analysis, engineVars>>

\* withRetry: the backoff is over and the operation is invoked again.
BackoffElapses ==
    /\ ppc = "backoff"
    /\ inflight' = inflight \cup {callIdx}
    /\ attempts' = attempts + 1
    /\ ppc' = "await"
    /\ UNCHANGED <<callIdx, issued, retriesLeft, hasKey, stageLog, isProcessing, summary,
                   lastOutcome, objects, events, analysis, engineVars>>

\* Variant of ReturnsDefault: a failed perception call rejects and the
\* catch block of the run ends it.
ReturnsDefaultRethrowing ==
    IF callIdx = 1
    THEN Caught /\ UNCHANGED <<objects, events>>
    ELSE Returns(callIdx) /\ UNCHANGED <<objects, events>>

\* The default of a call whose try block failed: for the perception no
\* object and no event, hence the early return.
ReturnsDefault ==
    IF callIdx = 1
    THEN Insufficient /\ objects' = <<>> /\ events' = <<>>
    ELSE Returns(callIdx) /\ UNCHANGED <<objects, events>>

\* withRetry rethrows (an error that is no rate limit, or a rate limit with
\* no retry left); the function's catch returns its default.
RequestFails ==
    /\ ppc = "await"
    /\ inflight = {callIdx}
    /\ inflight' = {}
    /\ \E kind \in {"error"} \cup (IF RetryAllowed(retriesLeft) THEN {} ELSE {"rateLimit"}) :
        lastOutcome' = kind
    /\ ReturnsDefault
    /\ UNCHANGED <<callIdx, issued, retriesLeft, hasKey, attempts, analysis, engineVars>>

\* The response arrives but JSON.parse throws inside the try block.
ResponseUnparsable ==
    /\ ppc = "await"
    /\ inflight = {callIdx}
    /\ CallOrder[callIdx] \in JsonCalls
    /\ inflight' = {}
    /\ lastOutcome' = "unparsable"
    /\ ReturnsDefault
    /\ UNCHANGED <<callIdx, issued, retriesLeft, hasKey, attempts, analysis, engineVars>>

\* The throttling sleep is over and the next stage is published; before
\* SYNTHESIS the run computes the uncertainty data.
SleepElapses ==
    /\ ppc = "sleep"
    /\ ~(CallOrder[callIdx + 1] = "generateInterventions" /\ UncertaintyThrows(objects))
    /\ ppc' = "call"
    /\ callIdx' = callIdx + 1
    /\ analysis' = IF CallOrder[callIdx + 1] = "generateInterventions"
                   THEN computeUncertaintyMetrics(objects, events)
                   ELSE analysis
    /\ stageLog' = stageLog \o StageBeforeCall(callIdx + 1)
    /\ UNCHANGED <<inflight, issued, retriesLeft, hasKey, isProcessing, summary,
                   attempts, lastOutcome, objects, events, engineVars>>

\* computeUncertaintyMetrics throws on the perception data: the catch block
\* ends the run before SYNTHESIS is published.
UncertaintyFails ==
    /\ ppc = "sleep"
    /\ CallOrder[callIdx + 1] = "generateInterventions"
    /\ UncertaintyThrows(objects)
    /\ Caught
    /\ UNCHANGED <<callIdx, inflight, issued, retriesLeft, hasKey,
                   attempts, lastOutcome, objects, events, analysis, engineVars>>

\* The environment sets or clears the API key while the run is under way:
\* getAiClient reads it at every call.
KeyChanges ==
    /\ ppc \in {"intake", "call", "await", "backoff", "sleep"}
    /\ hasKey' = ~hasKey
    /\ UNCHANGED <<ppc, callIdx, inflight, issued, retriesLeft, stageLog, isProcessing,
                   summary, attempts, lastOutcome, objects, events, analysis, engineVars>>

\* The steps in which an awaited file read, request or backoff settles, and
\* the synchronous steps between two awaits.
RunStep ==
    \/ Intake
    \/ IntakeFails
    \/ CallThrows
    \/ CallReturnsEarly
    \/ IssueRequest
    \/ PerceptionReturns
    \/ RequestSucceeds
    \/ RequestRateLimited
    \/ BackoffElapses
    \/ RequestFails
    \/ ResponseUnparsable

NextPipeline ==
    \/ Intake
    \/ IntakeFails
    \/ CallThrows
    \/ CallReturnsEarly
    \/ IssueRequest
    \/ PerceptionReturns
    \/ RequestSucceeds
    \/ RequestRateLimited
    \/ BackoffElapses
    \/ RequestFails
    \/ ResponseUnparsable
    \/ SleepElapses
    \/ UncertaintyFails
    \/ KeyChanges

SpecPipeline == InitPipeline /\ [][NextPipeline]_vars

\* Every awaited file read, request and sleep eventually resolves or rejects.
\* A throttling sleep is left only by SleepElapses or UncertaintyFails, one of
\* which is enabled whenever ppc = "sleep", so weak fairness of the timer is
\* "the run is infinitely often not sleeping".
SpecPipelineFair ==
    /\ InitPipeline
    /\ [][NextPipeline]_vars
    /\ WF_vars(RunStep)
    /\ []<>(ppc # "sleep")

-----------------------------------------------------------------------------
(* App: uploads, resets and the updates of the runs they start.  Each run
   keeps the updateState it was given and calls it after every await; no
   run is cancelled and no update is checked against the run that is
   current.  Positions of a run: "unused", then the await it is suspended
   at, then "returned". *)

\* The awaits of runFullPipeline at which a run is suspended.
Suspended ==
    {"intake", "perception", "causal", "counterfactual", "stress", "synthesis"}

\* The number of runs started so far.
Started == Cardinality({r \in RunIds : runs[r] # "unused"})

\* updateState: setState(prev => ({ ...prev, ...partial })), whichever run calls it.
updateState(r, partial) ==
    [f \in DOMAIN state |-> IF f \in DOMAIN partial THEN partial[f] ELSE state[f]]

InitApp ==
    /\ AppIdle
    /\ KinematicsIdle
    /\ objects = <<>>
    /\ events = <<>>
    /\ analysis = NoAnalysis
    /\ upc = "idle"
    /\ TtcIdle
    /\ AccIdle
    /\ PipelineIdle

idleVars == <<sparse, duration, step, dense, kpc, objects, events, analysis, upc,
              ttcVars, pipeVars, accVars>>

\* handleFileUpload, reachable from the landing screen only: the view
\* changes and runFullPipeline is called without await; the run publishes
\* FILE_INTAKE before its first await.
handleFileUpload ==
    /\ state.view = "LANDING"
    /\ Started < MaxRuns
    /\ LET r == Started + 1 IN
        /\ runs' = [runs EXCEPT ![r] = "intake"]
        /\ latestRun' = r
        /\ state' = [state EXCEPT !.view = "DASHBOARD",
                                  !.isProcessing = TRUE,
                                  !.processingStage = "FILE_INTAKE"]
    /\ UNCHANGED idleVars

\* The Reset button of the dashboard header: setState(INITIAL_STATE).
Reset ==
    /\ state.view = "DASHBOARD"
    /\ state' = INITIAL_STATE
    /\ latestRun' = 0
    /\ UNCHANGED <<runs, idleVars>>

\* The file is read and hashed: the integrity report and PERCEPTION_ANALYSIS.
FileRead(r) ==
    /\ runs[r] = "intake"
    /\ runs' = [runs EXCEPT ![r] = "perception"]
    /\ state' = updateState(r, [integrity |-> r, processingStage |-> "PERCEPTION_ANALYSIS"])
    /\ UNCHANGED <<latestRun, idleVars>>

\* The perception step returns no object and no event: the early return.
PerceptionEmpty(r) ==
    /\ runs[r] = "perception"
    /\ runs' = [runs EXCEPT ![r] = "returned"]
    /\ state' = updateState(r, [objects |-> 0, events |-> 0, isProcessing |-> FALSE,
                                executiveSummary |-> "INSUFFICIENT EVIDENCE"])
    /\ UNCHANGED <<latestRun, idleVars>>

\* The perception step returns objects and events of the run's file.
PerceptionResult(r) ==
    /\ runs[r] = "perception"
    /\ runs' = [runs EXCEPT ![r] = "causal"]
    /\ state' = updateState(r, [objects |-> r, events |-> r,
                                processingStage |-> "CAUSAL_MODELING"])
    /\ UNCHANGED <<latestRun, idleVars>>

\* generateCausalGraph returns.
GraphReturns(r) ==
    /\ runs[r] = "causal"
    /\ runs' = [runs EXCEPT ![r] = "counterfactual"]
    /\ state' = updateState(r, [graph |-> r, processingStage |-> "COUNTERFACTUAL_SIM"])
    /\ UNCHANGED <<latestRun, idleVars>>

\* generateCounterfactuals returns.
CounterfactualsReturn(r) ==
    /\ runs[r] = "counterfactual"
    /\ runs' = [runs EXCEPT ![r] = "stress"]
    /\ state' = updateState(r, [counterfactuals |-> r, processingStage |-> "ROBUSTNESS_TEST"])
    /\ UNCHANGED <<latestRun, idleVars>>

\* generateStressTests returns.
StressTestsReturn(r) ==
    /\ runs[r] = "stress"
    /\ runs' = [runs EXCEPT ![r] = "synthesis"]
    /\ state' = updateState(r, [stressTests |-> r, processingStage |-> "SYNTHESIS"])
    /\ UNCHANGED <<latestRun, idleVars>>

\* The interventions and summaries have returned: the final updateState.
RunCompletes(r) ==
    /\ runs[r] = "synthesis"
    /\ runs' = [runs EXCEPT ![r] = "returned"]
    /\ state' = updateState(r, [summaries |-> r, executiveSummary |-> "SUMMARY",
                                isProcessing |-> FALSE, processingStage |-> "COMPLETE"])
    /\ UNCHANGED <<latestRun, idleVars>>

\* An awaited step throws: the catch block.
RunFails(r) ==
    /\ runs[r] \in Suspended
    /\ runs' = [runs EXCEPT ![r] = "returned"]
    /\ state' = updateState(r, [isProcessing |-> FALSE,
                                executiveSummary |-> "ANALYSIS FAILED"])
    /\ UNCHANGED <<latestRun, idleVars>>

NextApp ==
    \/ handleFileUpload
    \/ Reset
    \/ \E r \in RunIds : FileRead(r)
    \/ \E r \in RunIds : PerceptionEmpty(r)
    \/ \E r \in RunIds : PerceptionResult(r)
    \/ \E r \in RunIds : GraphReturns(r)
    \/ \E r \in RunIds : CounterfactualsReturn(r)
    \/ \E r \in RunIds : StressTestsReturn(r)
    \/ \E r \in RunIds : RunCompletes(r)
    \/ \E r \in RunIds : RunFails(r)

SpecApp == InitApp /\ [][NextApp]_vars

----------------------------------------------------------------------------
(* Properties of interpolateSeries, checked under SpecKinematics. *)

Zero == Int2Num(0)

\* The loop clock t of the i-th sample: the loop adds step once per sample.
GridTime(i) == (i - 1) * step

\* Index in the caller's list of the latest anchor: the greatest time, and
\* among equal times the point supplied last.
LatestAnchorIdx ==
    CHOOSE i \in 1..Len(sparse.pts) :
        \A j \in 1..Len(sparse.pts) :
            \/ sparse.pts[j][1] < sparse.pts[i][1]
            \/ (sparse.pts[j][1] = sparse.pts[i][1] /\ j <= i)

\* C1: every sample returned by interpolateSeries has value >= 0, whatever
\* the sparse points (negative values included) and wherever the grid time
\* lies relative to the anchors.
C1_NonNegative ==
    kpc = "done" => \A i \in 1..Len(dense) : JsGe(dense[i].value, Zero)

\* C7: interpolateSeries returns the empty sequence when the sparse input is
\* missing, empty or a single point, for every duration and step.
C7_TooFewPointsEmpty ==
    (kpc = "done" /\ (sparse.isNull \/ Len(sparse.pts) < 2)) => dense = <<>>

\* C7 witness: a call on a single point with a positive duration has returned.
C7_Witness ==
    kpc = "done" /\ ~sparse.isNull /\ Len(sparse.pts) = 1 /\ duration > 0

\* C8: every sample whose grid time is strictly later than the latest anchor
\* time carries exactly the value of the latest anchor.
C8_FlatExtrapolation ==
    (kpc = "done" /\ dense # <<>>) =>
        \A i \in 1..Len(dense) :
            GridTime(i) > sparse.pts[LatestAnchorIdx][1]
                => dense[i].value = Int2Num(sparse.pts[LatestAnchorIdx][2])

\* C8 witness: an unsorted three-point list whose latest anchor is not the
\* last element supplied and is not zero, with a sample after it.
C8_Witness ==
    /\ kpc = "done"
    /\ Len(sparse.pts) = 3
    /\ LatestAnchorIdx = 1
    /\ sparse.pts[1][2] # 0
    /\ \E i \in 1..Len(dense) : GridTime(i) > sparse.pts[1][1]

\* C9 as stated: for any duration and step the emitted times of consecutive
\* samples differ by exactly step, and the emitted times are non-decreasing.
C9_ExactStep ==
    kpc = "done" =>
        \A i \in 1..(Len(dense) - 1) :
            /\ dense[i + 1].time - dense[i].time = step
            /\ dense[i].time <= dense[i + 1].time

\* C9 amended: when step is a whole multiple of 0.1 the emitted times of
\* consecutive samples differ by exactly step; for every step the emitted
\* times are non-decreasing and each is the grid time rounded to a tenth.
C9_ExactStepOnTenths ==
    kpc = "done" =>
        /\ \A i \in 1..(Len(dense) - 1) :
            /\ dense[i].time <= dense[i + 1].time
            /\ step % 10 = 0 => dense[i + 1].time - dense[i].time = step
        /\ \A i \in 1..Len(dense) :
            /\ dense[i].time % 10 = 0
            /\ 2 * Abs(dense[i].time - GridTime(i)) <= 10

\* C9 witness: a call with the default step 0.1 has returned several samples.
C9_Witness == kpc = "done" /\ step = 10 /\ Len(dense) >= 3

\* The anchors in the order the engine scans them.
SortedAnchors == SortByTime(sparse.pts)

\* max(0, p1.value + (p2.value - p1.value) * (t - p1.time) / (p2.time - p1.time))
\* for p1.time < p2.time, as one fraction.
ExpectedLerp(p1, p2, t) ==
    LET v == Fin(p1[2] * (p2[1] - p1[1]) + (p2[2] - p1[2]) * (t - p1[1]), p2[1] - p1[1])
    IN  IF v.n < 0 THEN Zero ELSE v

\* Anchors j and j+1 of the sorted list bracket t and are apart in time.
Brackets(j, t) ==
    /\ SortedAnchors[j][1] <= t
    /\ t <= SortedAnchors[j + 1][1]
    /\ SortedAnchors[j][1] < SortedAnchors[j + 1][1]

\* C11: for a grid time t between two adjacent sorted anchors p1 and p2
\* (p1.time <= t <= p2.time, p1.time < p2.time) the sample carries
\* max(0, p1.value + (p2.value - p1.value) * (t - p1.time) / (p2.time - p1.time)).
C11_LerpBetweenAnchors ==
    (kpc = "done" /\ dense # <<>>) =>
        \A i \in 1..Len(dense) : \A j \in 1..(Len(SortedAnchors) - 1) :
            Brackets(j, GridTime(i))
                => dense[i].value
                    = ExpectedLerp(SortedAnchors[j], SortedAnchors[j + 1], GridTime(i))

\* The same statement for lists whose timestamps are pairwise distinct.
DistinctTimes ==
    \A a, b \in 1..Len(sparse.pts) : a # b => sparse.pts[a][1] # sparse.pts[b][1]
C11_LerpDistinctTimes == DistinctTimes => C11_LerpBetweenAnchors

\* C25: for a grid time t earlier than the earliest anchor the sample is the
\* value at t of the line through the first two sorted anchors, clamped at 0
\* (a finite number, in general neither 0 nor the first anchor's value).
C25_BackwardExtrapolation ==
    (kpc = "done" /\ dense # <<>>) =>
        \A i \in 1..Len(dense) :
            GridTime(i) < SortedAnchors[1][1] =>
                /\ dense[i].value.k = "fin"
                /\ SortedAnchors[1][1] < SortedAnchors[2][1] =>
                       dense[i].value =
                           ExpectedLerp(SortedAnchors[1], SortedAnchors[2], GridTime(i))

\* C25 holds when no two anchors share a timestamp.
C25_BackwardDistinctTimes == DistinctTimes => C25_BackwardExtrapolation

\* A sample before the earliest anchor that is neither 0 nor the first
\* anchor's value.
C25_ExtrapolatedSample ==
    /\ kpc = "done"
    /\ DistinctTimes
    /\ \E i \in 1..Len(dense) :
        /\ GridTime(i) < SortedAnchors[1][1]
        /\ dense[i].value # Zero
        /\ dense[i].value # Int2Num(SortedAnchors[1][2])

\* The edge cases of C14: no list, an empty list, a single point, zero duration.
EdgeCase == sparse.isNull \/ Len(sparse.pts) < 2 \/ duration = 0

----------------------------------------------------------------------------
(* Properties of computeUncertaintyMetrics, checked under SpecUncertainty. *)

InUnit(x) == JsGe(x, Zero) /\ JsLe(x, One)

\* C2: for any input objects, the four uncertainty fields of every node lie
\* in the closed interval [0, 1].
C2_NodesInUnitInterval ==
    upc = "done" =>
        \A i \in 1..Len(analysis.nodes) :
            /\ InUnit(analysis.nodes[i].posUncertainty)
            /\ InUnit(analysis.nodes[i].velUncertainty)
            /\ InUnit(analysis.nodes[i].accelUncertainty)
            /\ InUnit(analysis.nodes[i].persistenceRisk)

\* C3: in every budget row outputConf = inputConf - loss, and each row's
\* outputConf is the next row's inputConf.
C3_BudgetChain ==
    upc = "done" =>
        /\ \A i \in 1..Len(analysis.budget) :
            analysis.budget[i].outputConf
                = JsSub(analysis.budget[i].inputConf, analysis.budget[i].loss)
        /\ \A i \in 1..(Len(analysis.budget) - 1) :
            analysis.budget[i].outputConf = analysis.budget[i + 1].inputConf

\* C3 witness: a budget computed from objects and from occlusion events, with
\* a loss at the first stage.
C3_Witness ==
    /\ upc = "done"
    /\ Len(analysis.budget) = 4
    /\ objects # <<>>
    /\ \E j \in 1..Len(events) : events[j].type = "occlusion"
    /\ JsGt(analysis.budget[1].loss, Zero)

\* C4: across the budget rows each outputConf is at most its inputConf and no
\* outputConf is below 0.
C4_MonotoneNonNegative ==
    upc = "done" =>
        \A i \in 1..Len(analysis.budget) :
            /\ JsLe(analysis.budget[i].outputConf, analysis.budget[i].inputConf)
            /\ JsGe(analysis.budget[i].outputConf, Zero)

IsSpatialLow(b) == b.type = "SPATIAL" /\ b.severity = "LOW"

\* C5: blindSpots is never empty; it holds exactly one SPATIAL finding, of
\* severity LOW, and that finding is the last element.
C5_SpatialAlwaysLast ==
    upc = "done" =>
        /\ analysis.blindSpots # <<>>
        /\ IsSpatialLow(analysis.blindSpots[Len(analysis.blindSpots)])
        /\ Cardinality({i \in 1..Len(analysis.blindSpots) :
                            analysis.blindSpots[i].type = "SPATIAL"}) = 1

\* C5 witness: a result that came with both other findings before SPATIAL.
C5_Witness == upc = "done" /\ Len(analysis.blindSpots) = 3

TypeAndSeverity(b) == <<b.type, b.severity>>

\* The findings C6 expects, from the inputs alone.
ExpectedFindings ==
    (IF \E i \in 1..Len(objects) : objects[i].avgConfidence < 60
        THEN << <<"ANALYTICAL", "HIGH">> >> ELSE <<>>)
    \o (IF \E j \in 1..Len(events) : events[j].type = "occlusion"
        THEN << <<"TEMPORAL", "MEDIUM">> >> ELSE <<>>)
    \o << <<"SPATIAL", "LOW">> >>

\* C6: blindSpots is the ordered sublist of ANALYTICAL/HIGH, TEMPORAL/MEDIUM,
\* SPATIAL/LOW with ANALYTICAL present iff some avgConfidence is strictly
\* below 0.6, TEMPORAL present iff some event is an occlusion, SPATIAL always.
C6_FindingsExactlyAsRuled ==
    upc = "done" =>
        [i \in 1..Len(analysis.blindSpots) |-> TypeAndSeverity(analysis.blindSpots[i])]
            = ExpectedFindings

\* C6 witness: an object exactly at 0.6 and none below it, with an occlusion:
\* the result is TEMPORAL then SPATIAL.
C6_Witness ==
    /\ upc = "done"
    /\ \E i \in 1..Len(objects) : objects[i].avgConfidence = 60
    /\ \A i \in 1..Len(objects) : objects[i].avgConfidence >= 60
    /\ Len(analysis.blindSpots) = 2
    /\ analysis.blindSpots[1].type = "TEMPORAL"

\* C10: for every input object the node's accelUncertainty is at least its
\* velUncertainty.
C10_AccelAtLeastVel ==
    upc = "done" =>
        \A i \in 1..Len(analysis.nodes) :
            JsGe(analysis.nodes[i].accelUncertainty, analysis.nodes[i].velUncertainty)

\* The reference formulas of C12 in integer arithmetic: c is avgConfidence in
\* hundredths, the results are fractions of 100, 1000 and 10000.
RefPos(o) == Fin(100 - o.avgConfidence, 100)
RefVelThousandths(o) ==
    LET raw == 12 * (100 - o.avgConfidence) + (IF o.maxSpeed > 80 THEN 200 ELSE 0)
    IN  IF raw > 1000 THEN 1000 ELSE raw
RefVel(o) == Fin(RefVelThousandths(o), 1000)
RefAccel(o) ==
    IF 15 * RefVelThousandths(o) > 10000 THEN One ELSE Fin(15 * RefVelThousandths(o), 10000)
RefPersistence(o) ==
    LET raw == (100 - o.avgConfidence) + (IF o.motionState = "erratic" THEN 30 ELSE 0)
    IN  IF raw > 100 THEN One ELSE Fin(raw, 100)

\* C12: every node equals the reference formulas: posUncertainty = 1 -
\* avgConfidence, velUncertainty = min(1, 1.2 * pos + (0.2 if maxSpeed > 80)),
\* accelUncertainty = min(1, 1.5 * vel), persistenceRisk = min(1, pos + (0.3 if
\* erratic)); the speed penalty applies only strictly above 80.
C12_NodeFormulas ==
    upc = "done" =>
        /\ Len(analysis.nodes) = Len(objects)
        /\ \A i \in 1..Len(objects) :
            /\ analysis.nodes[i].posUncertainty = RefPos(objects[i])
            /\ analysis.nodes[i].velUncertainty = RefVel(objects[i])
            /\ analysis.nodes[i].accelUncertainty = RefAccel(objects[i])
            /\ analysis.nodes[i].persistenceRisk = RefPersistence(objects[i])

\* C12 witness: an object with avgConfidence 0.9, moving at exactly 80, whose
\* node is 0.1, 0.12, 0.18, 0.1, beside an object above 80.
C12_Witness ==
    /\ upc = "done"
    /\ Len(objects) = 2
    /\ objects[1].avgConfidence = 90 /\ objects[1].maxSpeed = 80
    /\ objects[1].motionState = "moving"
    /\ analysis.nodes[1].posUncertainty = Fin(1, 10)
    /\ analysis.nodes[1].velUncertainty = Fin(12, 100)
    /\ analysis.nodes[1].accelUncertainty = Fin(18, 100)
    /\ analysis.nodes[1].persistenceRisk = Fin(1, 10)
    /\ objects[2].maxSpeed > 80

\* Number of events of type occlusion.
OcclusionCount == Cardinality({j \in 1..Len(events) : events[j].type = "occlusion"})

\* C13: the loss of the Multi-Object Tracking row is 0.05 + 0.02 * n, n the
\* number of occlusion events, whatever the objects and the other events.
C13_TrackingLoss ==
    upc = "done" =>
        /\ analysis.budget[2].stage = "Multi-Object Tracking"
        /\ analysis.budget[2].loss = Fin(5 + 2 * OcclusionCount, 100)

\* C13 witness: three occlusions give 0.11, with objects present.
C13_Witness ==
    /\ upc = "done"
    /\ OcclusionCount = 3
    /\ objects # <<>>
    /\ analysis.budget[2].loss = Fin(11, 100)

StageOrder ==
    <<"Raw Detection", "Multi-Object Tracking", "Motion Estimation", "Dynamics Modeling">>

\* C15: the result holds exactly one node per input object, in input order,
\* carrying that object's id and label, and a budget of exactly four rows in
\* the order Raw Detection, Multi-Object Tracking, Motion Estimation, Dynamics
\* Modeling whose first inputConf is 1.
C15_ShapeOfResult ==
    upc = "done" =>
        /\ Len(analysis.nodes) = Len(objects)
        /\ \A i \in 1..Len(objects) :
            /\ analysis.nodes[i].objectId = objects[i].id
            /\ analysis.nodes[i].label = objects[i].label
        /\ [i \in 1..Len(analysis.budget) |-> analysis.budget[i].stage] = StageOrder
        /\ analysis.budget[1].inputConf = Fin(1, 1)

\* C15 witness: a result for two objects with different ids and labels.
C15_Witness ==
    /\ upc = "done"
    /\ Len(objects) = 2
    /\ objects[1].id # objects[2].id
    /\ objects[1].label # objects[2].label
    /\ Len(analysis.nodes) = 2

----------------------------------------------------------------------------
(* Frame of the two calls, checked under SpecPure. *)

Unsorted(pts) == \E i \in 1..(Len(pts) - 1) : pts[i][1] > pts[i + 1][1]

----------------------------------------------------------------------------------------------------------------------------------------------------------------------------------------------------
(* Properties of computeDistanceAndTTC, checked under SpecTTC. *)

Speeds1 == interpolateSeries(ProfileOrEmpty(profile1), duration, DefaultStep)
Speeds2 == interpolateSeries(ProfileOrEmpty(profile2), duration, DefaultStep)

\* |vA[i] - vB[i]| for every sample i (1-based).
ClosingSeries ==
    LET s1 == Speeds1
        s2 == Speeds2
    IN  [i \in 1..MinLen(s1, s2) |-> MathAbs(JsSub(s1[i].value, s2[i].value))]

PrevDistance(i) == IF i = 1 THEN Int2Num(50) ELSE series[i - 1].distance

\* C19: every sample has 0 <= distance <= 50, distance does not increase
\* along the series, sample i's distance is
\* max(0, previous distance - |vA[i] - vB[i]| * 0.1) starting from 50, and a
\* distance of 0 stays 0.
C19_DistanceRecurrence ==
    tpc = "done" =>
        LET Closing == ClosingSeries IN
        \A i \in 1..Len(series) :
            /\ JsLe(Int2Num(0), series[i].distance)
            /\ JsLe(series[i].distance, Int2Num(50))
            /\ JsLe(series[i].distance, PrevDistance(i))
            /\ series[i].distance =
                   MathMax(Int2Num(0), JsSub(PrevDistance(i), JsMul(Closing[i], Fin(1, 10))))
            /\ (i > 1 /\ series[i - 1].distance = Int2Num(0))
                   => series[i].distance = Int2Num(0)

\* Both profiles have pairwise distinct timestamps.
DistinctProfileTimes ==
    \A p \in {profile1.pts, profile2.pts} :
        \A i, j \in 1..Len(p) : i # j => p[i][1] # p[j][1]

\* C19 holds when no profile repeats a timestamp.
C19_DistanceRecurrenceDistinctTimes ==
    DistinctProfileTimes => C19_DistanceRecurrence

\* The distance has reached 0 and stayed there for a further sample.
C19_ReachesZero ==
    /\ tpc = "done"
    /\ \E i \in 2..Len(series) :
        /\ series[i].distance = Int2Num(0)
        /\ series[i - 1].distance = Int2Num(0)
        /\ series[1].distance # Int2Num(0)

\* C20: for every sample, ttc is distance / closingSpeed when closingSpeed > 1
\* and 10 otherwise, with the sample's own (already decremented) distance,
\* and risk is true exactly when ttc < 2.5 and distance < 20.
C20_TtcAndRisk ==
    tpc = "done" =>
        LET Closing == ClosingSeries IN
        \A i \in 1..Len(series) :
            /\ series[i].ttc =
                   IF JsGt(Closing[i], Int2Num(1))
                   THEN JsDiv(series[i].distance, Closing[i])
                   ELSE Int2Num(10)
            /\ series[i].risk =
                   (JsLt(series[i].ttc, Fin(5, 2)) /\ JsLt(series[i].distance, Int2Num(20)))

\* C20 witness: one series holds a sample closing at exactly 1 (ttc 10), a
\* sample at risk, and a sample below 20 that is not at risk.
C20_Witness ==
    /\ tpc = "done"
    /\ \E i \in 1..Len(series) : series[i].risk
    /\ \E i \in 1..Len(series) :
        ~series[i].risk /\ JsLt(series[i].distance, Int2Num(20))
    /\ \E i \in 1..Len(series) :
        ClosingSeries[i] = Int2Num(1) /\ series[i].ttc = Int2Num(10)

----------------------------------------------------------------------------
(* Properties of computeAcceleration, checked under SpecAcceleration. *)

\* C22: the result has the length and the times of the input, its first
\* value is 0, and its value at a later index i is
\* (v[i] - v[i-1]) / (t[i] - t[i-1]) when t[i] - t[i-1] > 0 and 0 otherwise.
C22_BackwardDifference ==
    apc = "done" =>
        /\ Len(accelSeries) = Len(speedSeries)
        /\ \A i \in 1..Len(speedSeries) :
            /\ accelSeries[i].time = speedSeries[i].time
            /\ i = 1 => accelSeries[i].value = Int2Num(0)
            /\ (i > 1 /\ speedSeries[i].time - speedSeries[i - 1].time > 0) =>
                   accelSeries[i].value =
                       JsDiv(JsSub(speedSeries[i].value, speedSeries[i - 1].value),
                             Fin(speedSeries[i].time - speedSeries[i - 1].time, 100))
            /\ (i > 1 /\ speedSeries[i].time - speedSeries[i - 1].time <= 0) =>
                   accelSeries[i].value = Int2Num(0)

\* C22 witness: one result holds a non-zero slope over a positive time
\* difference and a 0 over an equal time where the values differ.
C22_Witness ==
    /\ apc = "done"
    /\ \E i \in 2..Len(speedSeries) :
        /\ speedSeries[i].time > speedSeries[i - 1].time
        /\ accelSeries[i].value = Int2Num(40)
    /\ \E i \in 2..Len(speedSeries) :
        /\ speedSeries[i].time = speedSeries[i - 1].time
        /\ speedSeries[i].value # speedSeries[i - 1].value
        /\ accelSeries[i].value = Int2Num(0)

----------------
(* The degenerate call of computeUncertaintyMetrics, checked under          *)
(* SpecUncertainty.                                                         *)

\* C18: with no objects and no events the result has no nodes, a four-row
\* budget whose Raw Detection row has loss 0.15 and outputConf 0.85 (mean
\* detection confidence taken as 0), and exactly one blind spot, of type
\* SPATIAL.
C18_EmptyInput ==
    (upc = "done" /\ objects = <<>> /\ events = <<>>) =>
        /\ analysis.nodes = <<>>
        /\ Len(analysis.budget) = 4
        /\ analysis.budget[1].stage = "Raw Detection"
        /\ analysis.budget[1].loss = Fin(15, 100)
        /\ analysis.budget[1].outputConf = Fin(85, 100)
        /\ Len(analysis.blindSpots) = 1
        /\ analysis.blindSpots[1].type = "SPATIAL"

\* C18 witness: the call on no objects and no events has returned.
C18_Witness ==
    /\ upc = "done"
    /\ objects = <<>>
    /\ events = <<>>
    /\ Len(analysis.budget) = 4
    /\ Len(analysis.blindSpots) = 1

----------------
(* Properties of runFullPipeline, checked under SpecPipeline. *)

IsPrefix(a, b) == Len(a) <= Len(b) /\ SubSeq(b, 1, Len(a)) = a

\* C17: within one run at most one AI request is in flight, a request in
\* flight is the one the run is waiting for (so no call starts before the
\* previous one has returned), and the functions are called in the order
\* perception, causal graph, counterfactuals, stress tests, interventions,
\* executive summary, signals summary, perception summary, measurements
\* summary, uncertainty summary, causal report.
C17_Sequential ==
    ppc # "idle" =>
        /\ Cardinality(inflight) <= 1
        /\ inflight # {} =>
            /\ ppc = "await"
            /\ inflight = {callIdx}
            /\ Len(issued) = callIdx
        /\ IsPrefix(issued, CallOrder)

\* C17 witness: a run, rate-limited at least once, has completed after
\* calling all eleven functions.
C17_Witness ==
    /\ ppc = "complete"
    /\ issued = CallOrder
    /\ retriesLeft < Retries
    /\ objects # <<>>

\* C23: within one run processingStage takes the values FILE_INTAKE,
\* INTEGRITY_CHECK, PERCEPTION_ANALYSIS, CAUSAL_MODELING, COUNTERFACTUAL_SIM,
\* ROBUSTNESS_TEST, SYNTHESIS, COMPLETE in that order, without skipping one
\* and without going back, and COMPLETE is published only with
\* isProcessing = false.
C23_StagesInOrder ==
    ppc # "idle" =>
        /\ stageLog # <<>>
        /\ IsPrefix(stageLog, ProcessingStages)
        /\ stageLog[Len(stageLog)] = "COMPLETE" => ~isProcessing

\* C23 witness: a run has published all eight stages.
C23_Witness ==
    /\ ppc = "complete"
    /\ stageLog = ProcessingStages
    /\ ~isProcessing

\* C24: withRetry invokes the operation at most Retries + 1 times; it
\* schedules a retry only after a rate-limit failure with retries left; after
\* a success, after any other failure, and after a rate-limit failure with
\* no retry left it returns or rethrows without invoking the operation again.
C24_WithRetry ==
    [][/\ attempts' <= Retries + 1
       /\ (ppc # "backoff" /\ ppc' = "backoff")
              => (ppc = "await" /\ lastOutcome' = "rateLimit" /\ retriesLeft > 0)
       /\ (ppc = "backoff" /\ attempts' # attempts)
              => (attempts' = attempts + 1 /\ lastOutcome = "rateLimit")
       /\ (ppc = "await" /\ inflight' = {} /\ lastOutcome' \in {"ok", "error", "unparsable"})
              => (ppc' \notin {"await", "backoff"} /\ attempts' = attempts)
       /\ (ppc = "await" /\ inflight' = {} /\ lastOutcome' = "rateLimit" /\ retriesLeft = 0)
              => (ppc' \notin {"await", "backoff"} /\ attempts' = attempts)]_vars

\* C24 witness: a call was invoked Retries + 1 times, every time rate
\* limited, and has been given up.
C24_Witness ==
    /\ ppc = "sleep"
    /\ attempts = Retries + 1
    /\ retriesLeft = 0
    /\ lastOutcome = "rateLimit"

----------------------------------------------------------------------------
(* Order independence of interpolateSeries, checked under SpecKinematics. *)

\* The lists that hold the points of pts in some order.
Reorderings(pts) ==
    {[i \in 1..Len(pts) |-> pts[f[i]]] :
        f \in {g \in [1..Len(pts) -> 1..Len(pts)] :
                 \A a, b \in 1..Len(pts) : a # b => g[a] # g[b]}}

\* C26: when the timestamps are pairwise distinct, every reordering of the
\* sparse points gives, with the same duration and step, the same output.
C26_OrderIndependent ==
    (kpc = "done" /\ DistinctTimes) =>
        \A q \in Reorderings(sparse.pts) :
            interpolateSeries([isNull |-> FALSE, pts |-> q], duration, step) = dense

\* C26 witness: a call on three points supplied out of time order has
\* returned several samples.
C26_Witness ==
    /\ kpc = "done"
    /\ DistinctTimes
    /\ Len(sparse.pts) = 3
    /\ Unsorted(sparse.pts)
    /\ Len(dense) > 1

----------------------------------------------------------------------------
(* Termination of the run, checked under SpecPipelineFair. *)

\* C27: every run eventually publishes isProcessing = false, provided every
\* awaited file read, AI call and sleep eventually resolves or rejects.
C27_EventuallyNotProcessing == <>(ppc # "idle" /\ ~isProcessing)

\* C27 witness: a run that was ended by its catch block after the perception
\* step has published isProcessing = false.
C27_Witness ==
    /\ ppc = "failed"
    /\ Len(issued) > 1
    /\ ~isProcessing
    /\ summary = "ANALYSIS FAILED"

\* What the state holds once the run has returned early.
StoppedAfterPerception ==
    /\ objects = <<>>
    /\ events = <<>>
    /\ issued = <<"analyzeVideoStructure">>
    /\ inflight = {}
    /\ analysis = NoAnalysis
    /\ stageLog[Len(stageLog)] = "PERCEPTION_ANALYSIS"
    /\ ~isProcessing
    /\ summary = "INSUFFICIENT EVIDENCE"

\* The perception step has returned at least one object or one event and the
\* run is in the throttling sleep before the causal-graph call.
PerceptionFound == ppc = "sleep" /\ callIdx = 1

\* C28: after a perception result with no object and no event the run has
\* stopped: only the perception call was ever issued, computeUncertaintyMetrics
\* was not invoked, the stage is still PERCEPTION_ANALYSIS, the last update
\* published isProcessing = false with INSUFFICIENT EVIDENCE, and no further
\* step follows; after any other perception result the run has not stopped and
\* the next call it issues is generateCausalGraph, which it eventually does.
C28_EmptyPerceptionStops ==
    /\ [](ppc = "insufficient" => StoppedAfterPerception)
    /\ [][ppc # "insufficient"]_vars
    /\ [](PerceptionFound => /\ ~EmptyPerception(objects, events)
                             /\ issued = <<"analyzeVideoStructure">>
                             /\ isProcessing)
    /\ [](Len(issued) >= 2 => issued[2] = "generateCausalGraph")
    /\ (PerceptionFound ~> (Len(issued) = 2 /\ issued[2] = "generateCausalGraph"))

\* C28 witness: the perception request succeeded with an empty result and the
\* run returned early.
C28_Witness ==
    /\ ppc = "insufficient"
    /\ lastOutcome = "ok"
    /\ StoppedAfterPerception

\* The perception call has failed for good: an error that is no rate limit,
\* a rate limit with no retry left, or a response that does not parse.
PerceptionCallFailed ==
    /\ callIdx = 1
    /\ ppc \notin {"await", "backoff"}
    /\ lastOutcome \in {"error", "rateLimit", "unparsable"}

\* The file read or the hash rejected: no AI function was called.
FileReadFailed == issued = <<>>

\* The function called last threw "API Key Missing": the perception, the
\* causal-graph or the intervention step, with no key.
KeyMissingThrown ==
    /\ Len(issued) = callIdx
    /\ issued[Len(issued)] \in
           {"analyzeVideoStructure", "generateCausalGraph", "generateInterventions"}
    /\ ~hasKey

\* computeUncertaintyMetrics threw on the perception data after the sleep
\* that follows the stress tests.
UncertaintyThrown ==
    /\ Len(issued) = callIdx
    /\ issued[Len(issued)] = "generateStressTests"
    /\ UncertaintyThrows(objects)
    /\ analysis = NoAnalysis

\* A failed perception call ends the run with INSUFFICIENT EVIDENCE.
PerceptionFailureIsInsufficient ==
    PerceptionCallFailed =>
        /\ ppc = "insufficient"
        /\ summary = "INSUFFICIENT EVIDENCE"
        /\ objects = <<>>
        /\ events = <<>>

\* C30 as stated: a failed perception call ends the run with INSUFFICIENT
\* EVIDENCE, and ANALYSIS FAILED is published only after a rejected file read
\* or hash, or a call of the perception, causal-graph or intervention
\* function with no API key.
C30_FailedOnlyByAwaitedThrow ==
    /\ PerceptionFailureIsInsufficient
    /\ summary = "ANALYSIS FAILED" => FileReadFailed \/ KeyMissingThrown

\* C30, amended: a failed perception call ends the run with INSUFFICIENT
\* EVIDENCE, and ANALYSIS FAILED is published only after a rejected file read
\* or hash, a call of the perception, causal-graph or intervention function
\* with no API key, or a throw of computeUncertaintyMetrics on a list of
\* objects the perception response left malformed.
C30_FailedOnlyByThrow ==
    /\ PerceptionFailureIsInsufficient
    /\ summary = "ANALYSIS FAILED" =>
           FileReadFailed \/ KeyMissingThrown \/ UncertaintyThrown

\* C30 witness: the perception request used up its retries on rate limits
\* and the run ended with INSUFFICIENT EVIDENCE.
C30_Witness ==
    /\ PerceptionCallFailed
    /\ lastOutcome = "rateLimit"
    /\ attempts = Retries + 1
    /\ summary = "INSUFFICIENT EVIDENCE"

\* A step of run r: an update it issues after one of its awaits.
StepOfRun(r) == runs[r] \in Suspended /\ runs'[r] # runs[r]

\* C29: an update issued by a run other than the one the latest upload
\* started (any run once Reset has been pressed) leaves the state as it is;
\* in particular it overwrites no object, event, graph or summary.
C29_NoLeakAcrossRuns ==
    [][\A r \in RunIds : StepOfRun(r) /\ r # latestRun => state' = state]_vars

\* The part of C29 that the code keeps: Reset itself restores INITIAL_STATE
\* and a run is started from the landing screen only.
C29_ResetRestores ==
    [][/\ (latestRun' = 0 /\ latestRun # 0 => state' = INITIAL_STATE)
       /\ (latestRun' \notin {0, latestRun} => state.view = "LANDING")]_vars

====
